---------------------------- MODULE Spec2Model ----------------------------
(***************************************************************************)
(* A model of smallpng's palette construction: PaletteImage and the        *)
(* functions it calls (setDefaults, toVector, subsampleClusterPixels,       *)
(* newColorClusters, kmeansPlusPlusInit, colorClusters.Iterate, toColor),   *)
(* as found in src/smallpng/color_test.go lines 50-307 (the PaletteConfig   *)
(* version of the quantizer) and src/unnamed/part_003 lines 1-195 (the      *)
(* colour spaces).                                                          *)
(*                                                                          *)
(* Arithmetic is exact.  A colour vector component x is the integer         *)
(* x * Unit, where Unit = 255 * Den and Den is the least common multiple of *)
(* 1..MaxPixels, so that the mean of up to MaxPixels vectors of 8-bit       *)
(* colours is again an integer.  Squared distances are in units of          *)
(* 1/Unit^2, a loss is the pair of its numerator and its denominator.       *)
(* Go indexes from 0 and TLA+ sequences from 1: sequences here are 1-based, *)
(* and the index grid Pix holds Go's 0-based palette indexes.               *)
(***************************************************************************)
EXTENDS Integers, Sequences, FiniteSets, TLC

\* ------------------------------------------------------------ bounds
\* The largest number of pixels of an input image.
MaxPixels == 4
\* The largest PaletteSize a configuration asks for.
MaxPalette == 2
\* The largest MaxKMeansIters a configuration asks for.
MaxIters == 2
\* The largest number of goroutines of an Iterate call.
MaxProcs == 2

\* ------------------------------------------------- program constants
DefaultMaxKMeansIters == 5
DefaultPaletteSize == 256
DefaultMaxClusterPixels == 100000
RGB == 0
CIELAB == 1

\* ----------------------------------------------------------- helpers
Min(a, b) == IF a <= b THEN a ELSE b

RECURSIVE Gcd(_, _)
Gcd(a, b) == IF b = 0 THEN a ELSE Gcd(b, a % b)

RECURSIVE LcmUpTo(_)
LcmUpTo(n) == IF n <= 1 THEN 1 ELSE (LcmUpTo(n - 1) * n) \div Gcd(LcmUpTo(n - 1), n)

\* The denominator shared by every mean of at most MaxPixels vectors.
Den == LcmUpTo(MaxPixels)
\* The integer that stands for the vector component 1.0.
Unit == 255 * Den

\* Go's conversion of a quotient to an integer discards the fraction
\* (truncation towards zero); den > 0.
Trunc(num, den) == IF num >= 0 THEN num \div den ELSE -((-num) \div den)

Range(s) == {s[k] : k \in 1..Len(s)}

RECURSIVE SumSeq(_)
SumSeq(s) == IF s = <<>> THEN 0 ELSE Head(s) + SumSeq(Tail(s))

\* All orderings of a finite set, as sequences without repetition.
RECURSIVE Orderings(_)
Orderings(S) ==
  IF S = {} THEN {<<>>}
  ELSE UNION {{<<x>> \o t : t \in Orderings(S \ {x})} : x \in S}

\* ------------------------------------------------------ colour vectors
\* color.RGBA.RGBA(): each 8-bit channel v becomes the 16-bit v | v << 8.
RGBA16(co) == [k \in 1..4 |-> co[k] * 257]

\* ColorSpace.toVector, RGB case: float32(rInt) / 0xffff per channel.
toVector(space, co) ==
  [k \in 1..4 |-> (RGBA16(co)[k] * Unit) \div 65535]

\* colorVector.DistSquared
DistSquared(c, c1) ==
  SumSeq([k \in 1..4 |-> (c[k] - c1[k]) * (c[k] - c1[k])])

\* colorVector.Add
Add(c, c1) == [k \in 1..4 |-> c[k] + c1[k]]

\* Scale without the division by the count: the center becomes the sum of
\* its points instead of their mean.
Scale_NoDivide(c, s) == c

\* colorVector.Scale, called as Scale(1 / float32(count)): s is the count.
Scale(c, s) == [k \in 1..4 |-> c[k] \div s]

ZeroVector == <<0, 0, 0, 0>>


\* ------------------------------------------------------------ toColor
\* The integer part of x * 255.999 for the component x = n / scale:
\* x * 255.999 = (255 * n + 0.999 * n) / scale, and dropping the fraction
\* of 0.999 * n does not change the integer part of the quotient.
times255999(n, scale) == Trunc(255 * n + Trunc(999 * n, 1000), scale)

\* The values uint8(x * 255.999) can take for x = n / scale.  Go discards
\* the fraction.  There is no clamp: when the integer part is outside
\* 0..255 it is not representable in uint8 and the result of the
\* conversion is implementation-dependent; Go's compilers either keep the
\* low 8 bits of the integer or saturate.
quantize(n, scale) ==
  LET t == times255999(n, scale)
  IN  IF t \in 0..255 THEN {t}
      ELSE {t % 256, IF t < 0 THEN 0 ELSE 255}

\* ColorSpace.toColor, case RGB, of the vector v / scale: the colours the
\* conversion can give.
toColorRGB(v, scale) ==
  {<<r, g, b, a>> : r \in quantize(v[1], scale), g \in quantize(v[2], scale),
                    b \in quantize(v[3], scale), a \in quantize(v[4], scale)}

\* ------------------------------------------------------------ CIELAB
\* The CIELAB chain in fixed point: a value x is the integer x * FP, and
\* every product is cut to a multiple of 1 / FP.
FP == 100 * 100
labAlphaScale == 128

fpMul(a, b) == Trunc(a * b, FP)

\* The product of x with the 8-digit coefficient (hi + lo / 10000) / 10000,
\* cut toward zero.  x is split in two as well, so that no partial product
\* leaves the 32-bit range of the checker's integers for x up to 10^8.
coef(hi, lo, x) ==
  LET a  == IF x < 0 THEN -x ELSE x
      xh == a \div 10000
      xl == a % 10000
      r  == hi * xh + (hi * xl + lo * xh + (lo * xl) \div 10000) \div 10000
  IN  IF x < 0 THEN -r ELSE r

RECURSIVE fpPow(_, _)
fpPow(x, n) == IF n = 0 THEN FP ELSE fpMul(fpPow(x, n - 1), x)

\* The largest r in lo..hi with r^12 <= target.
RECURSIVE root12(_, _, _)
root12(lo, hi, target) ==
  IF lo >= hi THEN lo
  ELSE LET mid == (lo + hi + 1) \div 2
       IN  IF fpPow(mid, 12) <= target THEN root12(mid, hi, target)
           ELSE root12(lo, mid - 1, target)

\* math.Pow(u, 1/2.4) for 0 < u: the fifth power of the twelfth root,
\* which is looked for below 1.25 (u is below 1.25^12, about 14.5).
pow512(u) == fpPow(root12(0, (5 * FP) \div 4, u), 5)

\* The function f of convertLabToXYZ, with delta = 6/29.
labInvF(t) ==
  LET delta == Trunc(6 * FP, 29)
  IN  IF t > delta THEN fpMul(fpMul(t, t), t)
      ELSE fpMul(fpMul(3 * delta, delta), t - Trunc(4 * FP, 29))

\* convertLabToXYZ, illuminant D65: xn = 95.0489, yn = 100, zn = 108.8840.
convertLabToXYZ(lab) ==
  LET fy == Trunc(lab[1] + 16 * FP, 116)
  IN  <<coef(9504, 8900, labInvF(fy + Trunc(lab[2], 500))),
        labInvF(fy),
        coef(10888, 4000, labInvF(fy - Trunc(lab[3], 200)))>>

\* convertLinearRGBToXYZ with the matrix of another set of primaries
\* (Adobe RGB), of which convertXYZToLinearRGB is not the inverse.
convertLinearRGBToXYZ_OtherPrimaries(rgb) ==
  <<coef(5767, 3090, rgb[1]) + coef(1855, 5400, rgb[2]) + coef(1881, 8520, rgb[3]),
    coef(2973, 7690, rgb[1]) + coef(6273, 4910, rgb[2]) + coef(752, 7410, rgb[3]),
    coef(270, 3430, rgb[1]) + coef(706, 8720, rgb[2]) + coef(9911, 850, rgb[3])>>

\* convertLinearRGBToXYZ
convertLinearRGBToXYZ(rgb) ==
  <<coef(4123, 9080, rgb[1]) + coef(3575, 8434, rgb[2]) + coef(1804, 8079, rgb[3]),
    coef(2126, 3901, rgb[1]) + coef(7151, 6868, rgb[2]) + coef(721, 9232, rgb[3]),
    coef(193, 3082, rgb[1]) + coef(1191, 9478, rgb[2]) + coef(9505, 3215, rgb[3])>>

\* convertXYZToLinearRGB
convertXYZToLinearRGB(xyz) ==
  <<coef(32409, 6994, xyz[1]) - coef(15373, 8318, xyz[2]) - coef(4986, 1076, xyz[3]),
    -coef(9692, 4364, xyz[1]) + coef(18759, 6750, xyz[2]) + coef(415, 5506, xyz[3]),
    coef(556, 3008, xyz[1]) - coef(2039, 7696, xyz[2]) + coef(10569, 7151, xyz[3])>>

\* gammaCompress
gammaCompress(u) ==
  IF u <= Trunc(31308 * FP, 10000000) THEN Trunc(1292 * u, 100)
  ELSE Trunc(1055 * pow512(u), 1000) - Trunc(55 * FP, 1000)

\* convertLinearRGBToSRGB
convertLinearRGBToSRGB(rgb) == [k \in 1..3 |-> gammaCompress(rgb[k])]

\* The colorVector that toColor, case CIELAB, hands to RGB.toColor for
\* the vector v / FP.
labToSRGB(v) ==
  LET xyz  == convertLabToXYZ(<<v[1], v[2], v[3]>>)
      lrgb == convertXYZToLinearRGB(xyz)
      rgb  == convertLinearRGBToSRGB(lrgb)
  IN  <<rgb[1], rgb[2], rgb[3], Trunc(v[4], labAlphaScale)>>

\* The channel values that toColor converts to uint8, with their scale.
\* RGB vectors are in units of 1 / Unit, CIELAB vectors in units of 1 / FP.
channels(space, v) ==
  IF space = RGB THEN <<v, Unit>> ELSE <<labToSRGB(v), FP>>

\* ColorSpace.toColor: the colours the conversion of v can give.
toColor(space, v) ==
  LET c == channels(space, v) IN toColorRGB(c[1], c[2])

\* ------------------------------------------------------------ Iterate
\* The inner loop of Iterate with d <= closestDist for d < closestDist:
\* among centers at the same distance the last one wins.
RECURSIVE closestFrom_LastTie(_, _, _, _, _)
closestFrom_LastTie(co, Centers, i, closestIdx, closestDist) ==
  IF i > Len(Centers) THEN <<closestIdx, closestDist>>
  ELSE LET d == DistSquared(co, Centers[i])
       IN  IF d <= closestDist \/ i = 1
           THEN closestFrom_LastTie(co, Centers, i + 1, i, d)
           ELSE closestFrom_LastTie(co, Centers, i + 1, closestIdx, closestDist)

\* The inner loop of Iterate over c.Centers from index i on: the candidate
\* is replaced when d < closestDist || i == 0.  Returns <<closestIdx,
\* closestDist>>, closestIdx 1-based.
RECURSIVE closestFrom(_, _, _, _, _)
closestFrom(co, Centers, i, closestIdx, closestDist) ==
  IF i > Len(Centers) THEN <<closestIdx, closestDist>>
  ELSE LET d == DistSquared(co, Centers[i])
       IN  IF d < closestDist \/ i = 1
           THEN closestFrom(co, Centers, i + 1, i, d)
           ELSE closestFrom(co, Centers, i + 1, closestIdx, closestDist)

closest(co, Centers) == closestFrom(co, Centers, 1, 1, 0)

\* The accumulators of one Iterate pass after the sample points 1..n:
\* centerSum, centerCount and totalError, as merged from all workers.
RECURSIVE accumulate(_, _, _)
accumulate(Centers, AllColors, n) ==
  IF n = 0
  THEN [centerSum   |-> [k \in 1..Len(Centers) |-> ZeroVector],
        centerCount |-> [k \in 1..Len(Centers) |-> 0],
        totalError  |-> 0]
  ELSE LET acc == accumulate(Centers, AllColors, n - 1)
           co  == AllColors[n]
           cl  == closest(co, Centers)
       IN  [centerSum   |-> [acc.centerSum EXCEPT ![cl[1]] = Add(@, co)],
            centerCount |-> [acc.centerCount EXCEPT ![cl[1]] = @ + 1],
            totalError  |-> acc.totalError + cl[2]]

\* A center-update loop without the test count > 0: a center without
\* points is set to the zero vector.
updateCenters_Reseed(Centers, acc) ==
  [k \in 1..Len(Centers) |->
     IF acc.centerCount[k] > 0
     THEN Scale(acc.centerSum[k], acc.centerCount[k])
     ELSE ZeroVector]

\* The center-update loop of Iterate: a center with count > 0 becomes
\* the mean of its points, any other keeps its value.
updateCenters(Centers, acc) ==
  [k \in 1..Len(Centers) |->
     IF acc.centerCount[k] > 0
     THEN Scale(acc.centerSum[k], acc.centerCount[k])
     ELSE Centers[k]]

\* A float64 loss: the fraction num / den, or NaN when nan is set.
NaN == [nan |-> TRUE, num |-> 0, den |-> 1]

\* totalError / float64(len(c.AllColors)): 0.0 / 0 is NaN.
lossOf(totalError, n) ==
  IF n = 0 THEN NaN ELSE [nan |-> FALSE, num |-> totalError, den |-> n]

\* newLoss >= loss on float64: false when either side is NaN.
LossGE(a, b) ==
  /\ ~a.nan
  /\ ~b.nan
  /\ a.num * b.den >= b.num * a.den

\* colorClusters.Iterate: the new centers and the returned loss.
Iterate(Centers, AllColors) ==
  LET acc == accumulate(Centers, AllColors, Len(AllColors))
  IN  [Centers |-> updateCenters(Centers, acc),
       loss    |-> lossOf(acc.totalError, Len(AllColors))]

\* --------------------------------------------------------- k-means++
\* newCenterDistances
newCenterDistances(allColors, center) ==
  LET dists == [k \in 1..Len(allColors) |-> DistSquared(allColors[k], center)]
  IN  [Distances |-> dists, DistanceSum |-> SumSeq(dists)]

\* centerDistances.Update without the test d < c.Distances[i]: every
\* distance becomes the one to the new center.
Update_Overwrite(c, allColors, newCenter) ==
  LET dists == [k \in 1..Len(allColors) |-> DistSquared(allColors[k], newCenter)]
  IN  [Distances |-> dists, DistanceSum |-> SumSeq(dists)]

\* centerDistances.Update
Update(c, allColors, newCenter) ==
  LET dists == [k \in 1..Len(allColors) |->
                  Min(DistSquared(allColors[k], newCenter), c.Distances[k])]
  IN  [Distances |-> dists, DistanceSum |-> SumSeq(dists)]

\* The scan of Sample with sample <= 0 for sample < 0.
RECURSIVE sampleFrom_OrZero(_, _, _)
sampleFrom_OrZero(Distances, sample, k) ==
  IF k > Len(Distances) THEN Len(Distances)
  ELSE IF sample - Distances[k] <= 0 THEN k
  ELSE sampleFrom_OrZero(Distances, sample - Distances[k], k + 1)

\* The scan of centerDistances.Sample from index k on (from 1), with the
\* remainder sample: the first index at which the remainder, less the
\* distance, is negative, and the last index when there is none.
RECURSIVE sampleFrom(_, _, _)
sampleFrom(Distances, sample, k) ==
  IF k > Len(Distances) THEN Len(Distances)
  ELSE IF sample - Distances[k] < 0 THEN k
  ELSE sampleFrom(Distances, sample - Distances[k], k + 1)

\* The draws rand.Float64() * c.DistanceSum, a real number in
\* [0, DistanceSum) in exact arithmetic (0 when DistanceSum is 0).  The
\* distances are integers here, so the scan treats a draw as it treats its
\* integer part, and all integers between two consecutive partial sums of
\* the distances alike: the draws are the partial sums and their
\* predecessors that lie in the interval.
Draws(c) ==
  IF c.DistanceSum = 0 THEN {0}
  ELSE LET partial == {SumSeq(SubSeq(c.Distances, 1, k)) : k \in 0..Len(c.Distances)}
       IN  {u \in partial \cup {q - 1 : q \in partial} : 0 <= u /\ u < c.DistanceSum}

\* centerDistances.Sample: the indexes the draws can select.
Sample(c) == {sampleFrom(c.Distances, u, 1) : u \in Draws(c)}

\* The loop of kmeansPlusPlusInit from center i on.
RECURSIVE kmeansFrom(_, _, _, _, _)
kmeansFrom(allColors, numCenters, centers, dists, i) ==
  IF i > numCenters THEN {centers}
  ELSE UNION {kmeansFrom(allColors, numCenters,
                         [centers EXCEPT ![i] = allColors[sampleIdx]],
                         Update(dists, allColors, allColors[sampleIdx]), i + 1)
              : sampleIdx \in Sample(dists)}

\* kmeansPlusPlusInit: every center list the random draws can produce
\* (numCenters >= 1 and allColors not empty).
kmeansPlusPlusInit(allColors, numCenters) ==
  UNION {kmeansFrom(allColors, numCenters,
                    [[k \in 1..numCenters |-> ZeroVector] EXCEPT ![1] = allColors[first]],
                    newCenterDistances(allColors, allColors[first]), 2)
         : first \in 1..Len(allColors)}

\* ----------------------------------------------------------- sampler
\* The draw sequences of the loop of subsampleClusterPixels: at step i
\* (from 0) the draw is j = rand.Intn(len(colors) - i), in 0..n-i-1.
DrawSeqs(n, maxPixels) ==
  {d \in [1..maxPixels -> 0..(n - 1)] : \A i \in 0..(maxPixels - 1) : d[i + 1] < n - i}

\* A swap that only writes colors[i]: the element that was there is lost
\* and colors[j] is in the list twice.
swap_Overwrite(colors, i, j) == [colors EXCEPT ![i + 1] = colors[j + 1]]

\* colors[i], colors[j] = colors[j], colors[i] (i, j from 0).
swap(colors, i, j) ==
  [colors EXCEPT ![i + 1] = colors[j + 1], ![j + 1] = colors[i + 1]]

\* The loop of subsampleClusterPixels from step i on, under the draws d.
RECURSIVE shuffleFrom(_, _, _, _)
shuffleFrom(colors, maxPixels, d, i) ==
  IF i >= maxPixels THEN colors
  ELSE shuffleFrom(swap(colors, i, d[i + 1]), maxPixels, d, i + 1)

\* subsampleClusterPixels for 0 <= maxPixels < len(colors), under draws d.
subsampleWith(colors, maxPixels, d) ==
  SubSeq(shuffleFrom(colors, maxPixels, d, 0), 1, maxPixels)

\* With maxPixels < 0 the test len(colors) <= maxPixels fails, the loop is
\* skipped and colors[:maxPixels] panics (slice bounds out of range).
subsamplePanics(colors, maxPixels) == maxPixels < 0

\* subsampleClusterPixels: every result the draws can produce
\* (maxPixels >= 0).
subsampleClusterPixels(colors, maxPixels) ==
  IF Len(colors) <= maxPixels THEN {colors}
  ELSE {subsampleWith(colors, maxPixels, d) : d \in DrawSeqs(Len(colors), maxPixels)}

\* ---------------------------------------------------- newColorClusters
\* A negative numCenters is below the number of distinct colours, and
\* kmeansPlusPlusInit starts with make([]colorVector, numCenters), which
\* panics for it.
newColorClustersPanics(allColors, numCenters) == numCenters < 0

\* newColorClusters: every center list it can return (numCenters >= 0).
\* The distinct colours are collected in a map, whose iteration order is
\* not specified.
newColorClusters(allColors, numCenters) ==
  LET uniqueColors == Range(allColors)
  IN  IF Cardinality(uniqueColors) <= numCenters THEN Orderings(uniqueColors)
      ELSE kmeansPlusPlusInit(allColors, numCenters)

\* ------------------------------------------------------- the palette
Nil == "nil"

\* The colours of the centers, in center order.
RECURSIVE toColors(_, _)
toColors(space, Centers) ==
  IF Centers = <<>> THEN {<<>>}
  ELSE {<<c>> \o t : c \in toColor(space, Head(Centers)),
                     t \in toColors(space, Tail(Centers))}

\* A palette without the padding loop and of the length of the centers.
padPalette_NoPad(cs, size) == cs

\* make(color.Palette, size), the centers' colours written to its first
\* slots and every later slot set to palette[0] (nil when there is no
\* center at all).
padPalette(cs, size) ==
  [k \in 1..size |-> IF k <= Len(cs) THEN cs[k]
                     ELSE IF Len(cs) >= 1 THEN cs[1] ELSE Nil]

\* The palettes PaletteImage can build from the final centers.
buildPalette(space, Centers, size) ==
  {padPalette(cs, size) : cs \in toColors(space, Centers)}

\* sqDiff of image/color: (x - y)^2 >> 2 on uint32; the square of a
\* difference of two 16-bit values does not wrap.
sqDiff(x, y) == ((x - y) * (x - y)) \div 4

\* color.Palette.Index from entry i on, as called by image.Paletted.Set:
\* the first entry at distance 0 is returned at once, otherwise the first
\* entry of the smallest sum of sqDiff over the four 16-bit channels.
\* bestSum = -1 stands for the initial 1<<32 - 1, which every sum is below.
\* Calling RGBA() on a nil entry panics: the result is then 0.
RECURSIVE indexFrom(_, _, _, _, _)
indexFrom(palette, co, i, ret, bestSum) ==
  IF i > Len(palette) THEN ret
  ELSE IF palette[i] = Nil THEN 0
  ELSE LET c == RGBA16(co)
           v == RGBA16(palette[i])
           sum == sqDiff(c[1], v[1]) + sqDiff(c[2], v[2])
                  + sqDiff(c[3], v[3]) + sqDiff(c[4], v[4])
       IN  IF bestSum = -1 \/ sum < bestSum
           THEN IF sum = 0 THEN i
                ELSE indexFrom(palette, co, i + 1, i, sum)
           ELSE indexFrom(palette, co, i + 1, ret, bestSum)

\* Palette.Index, 1-based (ret starts at Go's 0); 0 when it panics.
Index(palette, co) == indexFrom(palette, co, 1, 1, -1)

\* res.Set panics for some pixel of the image.
setPixelsPanics(image, palette) ==
  \E k \in 1..Len(image) : Index(palette, image[k]) = 0

\* The index grid: p.Pix[i] = uint8(p.Palette.Index(c)) for every pixel
\* of the source image.
setPixels(image, palette) ==
  [k \in 1..Len(image) |-> (Index(palette, image[k]) - 1) % 256]

\* ------------------------------------------------------ configuration
\* PaletteConfig.setDefaults
setDefaults(c) ==
  [MaxKMeansIters   |-> IF c.MaxKMeansIters = 0 THEN DefaultMaxKMeansIters
                        ELSE c.MaxKMeansIters,
   PaletteSize      |-> IF c.PaletteSize = 0 THEN DefaultPaletteSize
                        ELSE c.PaletteSize,
   MaxClusterPixels |-> IF c.MaxClusterPixels = 0 THEN DefaultMaxClusterPixels
                        ELSE c.MaxClusterPixels,
   ColorSpace       |-> c.ColorSpace]

\* ------------------------------------------------------------- inputs
\* The pixel colours of the input images (color.RGBA, 8 bits a channel).
Colours == {<<0, 0, 0, 255>>, <<1, 1, 0, 255>>, <<2, 2, 0, 255>>}

\* The images: the pixels of a w x h image in the row order in which
\* PaletteImage reads and writes them.
Images == UNION {[1..n -> Colours] : n \in 0..MaxPixels}

\* The configurations: CompressImage passes the three sizes and leaves
\* ColorSpace at its zero value, RGB.
ValidConfigs ==
  [MaxKMeansIters : 1..MaxIters, PaletteSize : 1..MaxPalette,
   MaxClusterPixels : 1..MaxPixels, ColorSpace : {RGB}]

\* The configurations with one field zero (its default is then used) or
\* negative.
EdgeConfigs ==
  {c \in [MaxKMeansIters : {-1, 0, MaxIters}, PaletteSize : {-1, 0, MaxPalette},
          MaxClusterPixels : {-1, 0, MaxPixels}, ColorSpace : {RGB}] :
     Cardinality({f \in {"MaxKMeansIters", "PaletteSize", "MaxClusterPixels"} :
                    c[f] <= 0}) = 1}

Configs == ValidConfigs \cup EdgeConfigs

\* -------------------------------------------------------------- state
VARIABLES
  img,       \* the source image
  cfg,       \* the configuration the caller passed
  p,         \* *p, the configuration PaletteImage works with
  pc,        \* where PaletteImage is
  colors,    \* the colour vectors; after subsampling, the sample
  Centers,   \* clusters.Centers
  loss,      \* the local loss of PaletteImage
  newLoss,   \* the local newLoss of PaletteImage
  i,         \* the loop counter of PaletteImage
  calls,     \* the number of Iterate calls so far
  palette,   \* the palette of the result
  Pix,       \* the index grid of the result
  conv,      \* TestXYZRGBInverses: its locals rgb, xyz and rgb1
  dists,     \* kmeansPlusPlusInit: its centerDistances
  pick,      \* kmeansPlusPlusInit: the draw of Sample and its sampleIdx
  numProcs,  \* Iterate: runtime.GOMAXPROCS(0)
  workers,   \* Iterate: each goroutine's position and locals
  centerSum,     \* Iterate: the merged sums
  centerCount,   \* Iterate: the merged counts
  totalError,    \* Iterate: the merged error
  resultLock,    \* Iterate: the holder of the mutex, or NoWorker
  wg,        \* Iterate: the counter of the WaitGroup
  before,    \* the centers at the start of the current Iterate call
  assign     \* for each sample index, the closestIdx of every scan of it

\* The variables of PaletteImage and of the functions it calls in one step.
pipeVars == <<img, cfg, p, pc, colors, Centers, loss, newLoss, i, calls, palette, Pix>>

\* The variables of the step-by-step developments below.
stepVars == <<conv, dists, pick, numProcs, workers, centerSum, centerCount,
              totalError, resultLock, wg, before, assign>>

vars == <<pipeVars, stepVars>>

\* No goroutine holds the mutex.
NoWorker == 0

\* The step-by-step variables where nothing of them is running.
ConvIdle == conv = <<>>

KppIdle == dists = <<>> /\ pick = <<>>

ParIdle ==
  /\ numProcs = 0
  /\ workers = <<>>
  /\ centerSum = <<>>
  /\ centerCount = <<>>
  /\ totalError = 0
  /\ resultLock = NoWorker
  /\ wg = 0
  /\ before = <<>>
  /\ assign = <<>>

StepIdle == ConvIdle /\ KppIdle /\ ParIdle

\* A loss variable that was not assigned yet.
NoLoss == [nan |-> FALSE, num |-> 0, den |-> 1]

Init ==
  /\ img \in Images
  /\ cfg \in Configs
  /\ p = cfg
  /\ pc = "start"
  /\ colors = <<>>
  /\ Centers = <<>>
  /\ loss = NoLoss
  /\ newLoss = NoLoss
  /\ i = 0
  /\ calls = 0
  /\ palette = <<>>
  /\ Pix = <<>>
  /\ StepIdle

\* PaletteImage up to the subsampling: the defaults, and the vector of
\* every pixel.
ReadImage ==
  /\ pc = "start"
  /\ p' = setDefaults(p)
  /\ colors' = [k \in 1..Len(img) |-> toVector(p'.ColorSpace, img[k])]
  /\ pc' = "subsample"
  /\ UNCHANGED <<img, cfg, Centers, loss, newLoss, i, calls, palette, Pix, stepVars>>

\* colors = subsampleClusterPixels(colors, p.MaxClusterPixels)
Subsample ==
  /\ pc = "subsample"
  /\ IF subsamplePanics(colors, p.MaxClusterPixels)
     THEN pc' = "panic" /\ colors' = colors
     ELSE /\ pc' = "newClusters"
          /\ colors' \in subsampleClusterPixels(colors, p.MaxClusterPixels)
  /\ UNCHANGED <<img, cfg, p, Centers, loss, newLoss, i, calls, palette, Pix, stepVars>>

\* clusters := newColorClusters(colors, p.PaletteSize)
NewClusters ==
  /\ pc = "newClusters"
  /\ IF newColorClustersPanics(colors, p.PaletteSize)
     THEN pc' = "panic" /\ Centers' = Centers
     ELSE /\ pc' = "iterate"
          /\ Centers' \in newColorClusters(colors, p.PaletteSize)
  /\ UNCHANGED <<img, cfg, p, colors, loss, newLoss, i, calls, palette, Pix, stepVars>>

\* loss := clusters.Iterate()
FirstIterate ==
  /\ pc = "iterate"
  /\ LET r == Iterate(Centers, colors)
     IN  /\ Centers' = r.Centers
         /\ loss' = r.loss
  /\ calls' = calls + 1
  /\ pc' = "loop"
  /\ UNCHANGED <<img, cfg, p, colors, newLoss, i, palette, Pix, stepVars>>

\* One pass of the loop of PaletteImage: newLoss := clusters.Iterate(),
\* then break if newLoss >= loss, else loss = newLoss and i++.
LoopIterate ==
  /\ pc = "loop"
  /\ i < p.MaxKMeansIters
  /\ LET r == Iterate(Centers, colors)
     IN  /\ Centers' = r.Centers
         /\ newLoss' = r.loss
         /\ IF LossGE(r.loss, loss)
            THEN pc' = "palette" /\ loss' = loss /\ i' = i
            ELSE pc' = "loop" /\ loss' = r.loss /\ i' = i + 1
  /\ calls' = calls + 1
  /\ UNCHANGED <<img, cfg, p, colors, palette, Pix, stepVars>>

\* The loop ends with i = p.MaxKMeansIters.
LoopExit ==
  /\ pc = "loop"
  /\ i >= p.MaxKMeansIters
  /\ pc' = "palette"
  /\ UNCHANGED <<img, cfg, p, colors, Centers, loss, newLoss, i, calls, palette, Pix, stepVars>>

\* The palette of the final centers, its padding, and the index of every
\* pixel of the source image.
BuildPalette ==
  /\ pc = "palette"
  /\ \E pal \in buildPalette(p.ColorSpace, Centers, p.PaletteSize) :
       /\ palette' = pal
       /\ IF setPixelsPanics(img, pal)
          THEN pc' = "panic" /\ Pix' = Pix
          ELSE pc' = "done" /\ Pix' = setPixels(img, pal)
  /\ UNCHANGED <<img, cfg, p, colors, Centers, loss, newLoss, i, calls, stepVars>>

Next ==
  \/ ReadImage
  \/ Subsample
  \/ NewClusters
  \/ FirstIterate
  \/ LoopIterate
  \/ LoopExit
  \/ BuildPalette

Spec == Init /\ [][Next]_vars

\* The vectors of the pixels of the source image, as ReadImage builds them.
Vectors == [k \in 1..Len(img) |-> toVector(RGB, img[k])]

\* subsampleClusterPixels on its own: any vector list and any
\* maxPixels >= 0 (0 included: the function has no default of its own).
InitSub ==
  /\ img \in Images
  /\ cfg \in [MaxKMeansIters : {1}, PaletteSize : {1},
              MaxClusterPixels : 0..MaxPixels, ColorSpace : {RGB}]
  /\ p = cfg
  /\ pc = "subsample"
  /\ colors = Vectors
  /\ Centers = <<>>
  /\ loss = NoLoss
  /\ newLoss = NoLoss
  /\ i = 0
  /\ calls = 0
  /\ palette = <<>>
  /\ Pix = <<>>
  /\ StepIdle

NextSub == Subsample

SpecSub == InitSub /\ [][NextSub]_vars

\* toColor on its own: the palette of a single center, which may be any
\* vector, in or out of range.
ChannelLevels ==
  {-Unit, -Den, 1 - Den, 0, Den, Unit - 1, Unit, Unit + 1, Unit + Den, 2 * Unit}

RGBVectors == {<<r, g, 0, Unit>> : r, g \in ChannelLevels}

LabVectors ==
  {<<l * FP, a * FP, b * FP, al * FP>> :
     l \in {0, 50, 100, 110}, a \in {-100, 0, 100}, b \in {0}, al \in {0, 128, 200}}
  \cup {<<53 * FP, 80 * FP, 67 * FP, 128 * FP>>,
        <<88 * FP, -86 * FP, 83 * FP, 128 * FP>>,
        <<32 * FP, 79 * FP, -108 * FP, 64 * FP>>}

InitColor ==
  /\ img = <<>>
  /\ cfg \in [MaxKMeansIters : {1}, PaletteSize : {1},
              MaxClusterPixels : {1}, ColorSpace : {RGB, CIELAB}]
  /\ p = cfg
  /\ pc = "palette"
  /\ colors = <<>>
  /\ Centers \in {<<v>> : v \in IF cfg.ColorSpace = RGB THEN RGBVectors ELSE LabVectors}
  /\ loss = NoLoss
  /\ newLoss = NoLoss
  /\ i = 0
  /\ calls = 0
  /\ palette = <<>>
  /\ Pix = <<>>
  /\ StepIdle

NextColor == BuildPalette

SpecColor == InitColor /\ [][NextColor]_vars

\* Iterate on its own: successive calls on a fixed non-empty sample, from
\* any list of 1..MaxPalette starting centers drawn from the sample (a
\* colour may be drawn twice, and the later copy then has no point).
StartCenters(sample) ==
  UNION {[1..k -> Range(sample)] : k \in 1..MaxPalette}

InitIter ==
  /\ img \in Images \ {<<>>}
  /\ cfg \in [MaxKMeansIters : {MaxIters}, PaletteSize : {MaxPalette},
              MaxClusterPixels : {MaxPixels}, ColorSpace : {RGB}]
  /\ p = cfg
  /\ pc = "iterate"
  /\ colors = Vectors
  /\ Centers \in StartCenters(Vectors)
  /\ loss = NoLoss
  /\ newLoss = NoLoss
  /\ i = 0
  /\ calls = 0
  /\ palette = <<>>
  /\ Pix = <<>>
  /\ StepIdle

\* One more call of clusters.Iterate(): newLoss is the loss it returns,
\* loss the one the call before it returned.
IterateCall ==
  /\ pc = "iterate"
  /\ calls <= MaxIters
  /\ LET r == Iterate(Centers, colors)
     IN  /\ Centers' = r.Centers
         /\ newLoss' = r.loss
  /\ loss' = newLoss
  /\ calls' = calls + 1
  /\ UNCHANGED <<img, cfg, p, pc, colors, i, palette, Pix, stepVars>>

NextIter == IterateCall

SpecIter == InitIter /\ [][NextIter]_vars

\* TestXYZRGBInverses: a linear-RGB triple is taken to XYZ and back.  The
\* float32 arithmetic is fixed point here: a value x is the integer
\* x * FPX, every product cut to a multiple of 1 / FPX (10^-7, the
\* resolution of a float32 below 1).
FPX == 1000 * FP

\* rand.Float32() is in [0, 1): the levels of a component.
TestLevels == {0, 1, FPX \div 3, FPX \div 2, (2 * FPX) \div 3, FPX - 1}

\* The configuration of a development that does not read it.
NoConfig ==
  [MaxKMeansIters |-> 1, PaletteSize |-> 1, MaxClusterPixels |-> 1, ColorSpace |-> RGB]

InitMatrix ==
  /\ img = <<>>
  /\ cfg = NoConfig
  /\ p = cfg
  /\ pc = "rgb"
  /\ colors = <<>>
  /\ Centers = <<>>
  /\ loss = NoLoss
  /\ newLoss = NoLoss
  /\ i = 0
  /\ calls = 0
  /\ palette = <<>>
  /\ Pix = <<>>
  /\ conv \in {[rgb |-> <<r, g, b>>, xyz |-> <<>>, rgb1 |-> <<>>] :
                 r \in TestLevels, g \in TestLevels, b \in TestLevels}
  /\ KppIdle
  /\ ParIdle

\* xyz := convertLinearRGBToXYZ(rgb)
ToXYZ ==
  /\ pc = "rgb"
  /\ conv' = [conv EXCEPT !.xyz = convertLinearRGBToXYZ(conv.rgb)]
  /\ pc' = "xyz"
  /\ UNCHANGED <<img, cfg, p, colors, Centers, loss, newLoss, i, calls, palette, Pix>>
  /\ UNCHANGED <<dists, pick, numProcs, workers, centerSum, centerCount, totalError,
                 resultLock, wg, before, assign>>

\* rgb1 := convertXYZToLinearRGB(xyz)
ToLinearRGB ==
  /\ pc = "xyz"
  /\ conv' = [conv EXCEPT !.rgb1 = convertXYZToLinearRGB(conv.xyz)]
  /\ pc' = "rgb1"
  /\ UNCHANGED <<img, cfg, p, colors, Centers, loss, newLoss, i, calls, palette, Pix>>
  /\ UNCHANGED <<dists, pick, numProcs, workers, centerSum, centerCount, totalError,
                 resultLock, wg, before, assign>>

NextMatrix == ToXYZ \/ ToLinearRGB

SpecMatrix == InitMatrix /\ [][NextMatrix]_vars

\* ------------------------------------------- Iterate, step by step
\* colorClusters.Iterate with its goroutines.  Goroutine w (from 1) is
\* the one started with idx = w - 1.  Its pc is "idle" before the go
\* statement, "scan" in its loop over the sample, "lock" at
\* resultLock.Lock(), "merge" with the mutex held, "unlock" at the
\* deferred resultLock.Unlock(), "exit" at the deferred wg.Done(), and
\* "done" after it.  The main goroutine's pc is "spawn" in the loop of the
\* go statements, "wait" at wg.Wait(), "update" in the center-update loop
\* and "returned" after the return.

\* resultLock.Lock() can proceed.
lockFree_Always(holder) == TRUE

lockFree(holder) == holder = NoWorker

\* wg.Wait() can proceed.
waitDone_NoWait(counter) == TRUE

waitDone(counter) == counter = 0

\* make([]colorVector, len(c.Centers)) and make([]int, len(c.Centers))
zeroSums(n) == [k \in 1..n |-> ZeroVector]

zeroCounts(n) == [k \in 1..n |-> 0]

\* A goroutine that was not started yet.
idleWorker ==
  [pc |-> "idle", i |-> 0, localCenterSum |-> <<>>, localCenterCount |-> <<>>,
   localTotalError |-> 0]

\* The samples of the step-by-step Iterate: the vectors of the images
\* whose pixels are in non-decreasing order (k-means does not depend on
\* the order of the sample).
ParSamples ==
  {[k \in 1..Len(im) |-> toVector(RGB, im[k])] :
     im \in {x \in Images : /\ Len(x) > 0
                            /\ \A k \in 1..(Len(x) - 1) : x[k][1] <= x[k + 1][1]}}

InitPar ==
  /\ img = <<>>
  /\ cfg = NoConfig
  /\ p = cfg
  /\ pc = "spawn"
  /\ colors \in ParSamples
  /\ Centers \in StartCenters(colors)
  /\ loss = NoLoss
  /\ newLoss = NoLoss
  /\ i = 0
  /\ calls = 0
  /\ palette = <<>>
  /\ Pix = <<>>
  /\ ConvIdle
  /\ KppIdle
  /\ numProcs \in 1..MaxProcs
  /\ workers = [w \in 1..numProcs |-> idleWorker]
  /\ centerSum = zeroSums(Len(Centers))
  /\ centerCount = zeroCounts(Len(Centers))
  /\ totalError = 0
  /\ resultLock = NoWorker
  /\ wg = 0
  /\ before = Centers
  /\ assign = [k \in 1..Len(colors) |-> <<>>]

\* The variables no step of Iterate changes.
parFrame ==
  <<img, cfg, p, colors, newLoss, palette, Pix, conv, dists, pick, numProcs>>

\* wg.Add(1); go func(idx int) {...}(i): the goroutine makes its local
\* accumulators and enters its loop at i = idx.
Spawn ==
  /\ pc = "spawn"
  /\ i < numProcs
  /\ wg' = wg + 1
  /\ workers' = [workers EXCEPT ![i + 1] =
                   [pc |-> "scan", i |-> i,
                    localCenterSum |-> zeroSums(Len(Centers)),
                    localCenterCount |-> zeroCounts(Len(Centers)),
                    localTotalError |-> 0]]
  /\ i' = i + 1
  /\ pc' = IF i + 1 < numProcs THEN "spawn" ELSE "wait"
  /\ UNCHANGED <<Centers, loss, calls, centerSum, centerCount, totalError,
                 resultLock, before, assign, parFrame>>

\* One pass of the loop of goroutine w: the nearest center of
\* c.AllColors[i], the local accumulators, i += numProcs.
Scan(w) ==
  /\ workers[w].pc = "scan"
  /\ workers[w].i < Len(colors)
  /\ LET co == colors[workers[w].i + 1]
         cl == closest(co, Centers)
     IN  /\ workers' = [workers EXCEPT
              ![w].localCenterSum[cl[1]] = Add(@, co),
              ![w].localCenterCount[cl[1]] = @ + 1,
              ![w].localTotalError = @ + cl[2],
              ![w].i = @ + numProcs]
         /\ assign' = [assign EXCEPT ![workers[w].i + 1] =
              Append(@, [w |-> w, closestIdx |-> cl[1], closestDist |-> cl[2],
                         read |-> Centers])]
  /\ UNCHANGED <<pc, i, Centers, loss, calls, centerSum, centerCount, totalError,
                 resultLock, wg, before, parFrame>>

\* The loop of goroutine w ends: i >= len(c.AllColors).
ScanEnd(w) ==
  /\ workers[w].pc = "scan"
  /\ workers[w].i >= Len(colors)
  /\ workers' = [workers EXCEPT ![w].pc = "lock"]
  /\ UNCHANGED <<pc, i, Centers, loss, calls, centerSum, centerCount, totalError,
                 resultLock, wg, before, assign, parFrame>>

\* resultLock.Lock()
Lock(w) ==
  /\ workers[w].pc = "lock"
  /\ lockFree(resultLock)
  /\ resultLock' = w
  /\ workers' = [workers EXCEPT ![w].pc = "merge"]
  /\ UNCHANGED <<pc, i, Centers, loss, calls, centerSum, centerCount, totalError,
                 wg, before, assign, parFrame>>

\* The three merges of goroutine w: counts, sums, error.
Merge(w) ==
  /\ workers[w].pc = "merge"
  /\ centerCount' = [k \in 1..Len(centerCount) |->
                       centerCount[k] + workers[w].localCenterCount[k]]
  /\ centerSum' = [k \in 1..Len(centerSum) |->
                     Add(centerSum[k], workers[w].localCenterSum[k])]
  /\ totalError' = totalError + workers[w].localTotalError
  /\ workers' = [workers EXCEPT ![w].pc = "unlock"]
  /\ UNCHANGED <<pc, i, Centers, loss, calls, resultLock, wg, before, assign,
                 parFrame>>

\* The deferred resultLock.Unlock()
Unlock(w) ==
  /\ workers[w].pc = "unlock"
  /\ resultLock' = NoWorker
  /\ workers' = [workers EXCEPT ![w].pc = "exit"]
  /\ UNCHANGED <<pc, i, Centers, loss, calls, centerSum, centerCount, totalError,
                 wg, before, assign, parFrame>>

\* The deferred wg.Done()
Done(w) ==
  /\ workers[w].pc = "exit"
  /\ wg' = wg - 1
  /\ workers' = [workers EXCEPT ![w].pc = "done"]
  /\ UNCHANGED <<pc, i, Centers, loss, calls, centerSum, centerCount, totalError,
                 resultLock, before, assign, parFrame>>

\* wg.Wait() returns.
Wait ==
  /\ pc = "wait"
  /\ waitDone(wg)
  /\ pc' = "update"
  /\ i' = 0
  /\ UNCHANGED <<Centers, loss, calls, workers, centerSum, centerCount,
                 totalError, resultLock, wg, before, assign, parFrame>>

\* One pass of the center-update loop.
UpdateCenter ==
  /\ pc = "update"
  /\ i < Len(centerSum)
  /\ LET acc == [centerSum |-> centerSum, centerCount |-> centerCount,
                 totalError |-> totalError]
     IN  Centers' = [Centers EXCEPT ![i + 1] = updateCenters(Centers, acc)[i + 1]]
  /\ i' = i + 1
  /\ UNCHANGED <<pc, loss, calls, workers, centerSum, centerCount, totalError,
                 resultLock, wg, before, assign, parFrame>>

\* return totalError / float64(len(c.AllColors))
Return ==
  /\ pc = "update"
  /\ i >= Len(centerSum)
  /\ loss' = lossOf(totalError, Len(colors))
  /\ calls' = calls + 1
  /\ pc' = "returned"
  /\ UNCHANGED <<i, Centers, workers, centerSum, centerCount, totalError,
                 resultLock, wg, before, assign, parFrame>>

\* The caller calls Iterate again: new accumulators, mutex and WaitGroup.
CallAgain ==
  /\ pc = "returned"
  /\ calls < MaxIters
  /\ pc' = "spawn"
  /\ i' = 0
  /\ workers' = [w \in 1..numProcs |-> idleWorker]
  /\ centerSum' = zeroSums(Len(Centers))
  /\ centerCount' = zeroCounts(Len(Centers))
  /\ totalError' = 0
  /\ resultLock' = NoWorker
  /\ wg' = 0
  /\ before' = Centers
  /\ assign' = [k \in 1..Len(colors) |-> <<>>]
  /\ UNCHANGED <<Centers, loss, calls, parFrame>>

NextPar ==
  \/ Spawn
  \/ \E w \in 1..numProcs : Scan(w)
  \/ \E w \in 1..numProcs : ScanEnd(w)
  \/ \E w \in 1..numProcs : Lock(w)
  \/ \E w \in 1..numProcs : Merge(w)
  \/ \E w \in 1..numProcs : Unlock(w)
  \/ \E w \in 1..numProcs : Done(w)
  \/ Wait
  \/ UpdateCenter
  \/ Return
  \/ CallAgain

SpecPar == InitPar /\ [][NextPar]_vars

\* ------------------------------------ kmeansPlusPlusInit, step by step
\* kmeansPlusPlusInit(colors, p.PaletteSize) on a non-empty sample, for
\* 1..MaxPalette centers.  Centers is its local centers, i its loop
\* counter, pick the locals of the Sample call that is under way.
InitKpp ==
  /\ img \in Images \ {<<>>}
  /\ cfg \in [MaxKMeansIters : {1}, PaletteSize : 1..MaxPalette,
              MaxClusterPixels : {MaxPixels}, ColorSpace : {RGB}]
  /\ p = cfg
  /\ pc = "kpp"
  /\ colors = Vectors
  /\ Centers = <<>>
  /\ loss = NoLoss
  /\ newLoss = NoLoss
  /\ i = 0
  /\ calls = 0
  /\ palette = <<>>
  /\ Pix = <<>>
  /\ ConvIdle
  /\ KppIdle
  /\ ParIdle

\* The variables no step of kmeansPlusPlusInit changes.
kppFrame ==
  <<img, cfg, p, colors, loss, newLoss, calls, palette, Pix, conv, numProcs,
    workers, centerSum, centerCount, totalError, resultLock, wg, before, assign>>

\* centers := make([]colorVector, numCenters); centers[0] = a random
\* element; dists := newCenterDistances(allColors, centers[0]); i := 1
KppFirst ==
  /\ pc = "kpp"
  /\ \E first \in 1..Len(colors) :
       /\ Centers' = [[k \in 1..p.PaletteSize |-> ZeroVector] EXCEPT ![1] = colors[first]]
       /\ dists' = newCenterDistances(colors, colors[first])
  /\ i' = 1
  /\ pc' = "kppLoop"
  /\ UNCHANGED <<pick, kppFrame>>

\* sampleIdx := dists.Sample()
KppSample ==
  /\ pc = "kppLoop"
  /\ i < p.PaletteSize
  /\ \E u \in Draws(dists) :
       pick' = [sample |-> u, sampleIdx |-> sampleFrom(dists.Distances, u, 1)]
  /\ pc' = "kppUpdate"
  /\ UNCHANGED <<Centers, dists, i, kppFrame>>

\* centers[i] = allColors[sampleIdx]; dists.Update(centers[i]); i++
KppUpdate ==
  /\ pc = "kppUpdate"
  /\ Centers' = [Centers EXCEPT ![i + 1] = colors[pick.sampleIdx]]
  /\ dists' = Update(dists, colors, colors[pick.sampleIdx])
  /\ i' = i + 1
  /\ pc' = "kppLoop"
  /\ UNCHANGED <<pick, kppFrame>>

\* return centers
KppReturn ==
  /\ pc = "kppLoop"
  /\ i >= p.PaletteSize
  /\ pc' = "kppDone"
  /\ UNCHANGED <<Centers, dists, i, pick, kppFrame>>

NextKpp == KppFirst \/ KppSample \/ KppUpdate \/ KppReturn

SpecKpp == InitKpp /\ [][NextKpp]_vars

\* ------------------------------------------------------------- claims
\* The configuration the caller passed is one the specification calls
\* invalid.
Invalid(c) ==
  c.PaletteSize <= 0 \/ c.MaxKMeansIters < 0 \/ c.MaxClusterPixels < 0

\* The number of distinct colours of the source image.
NumColours == Cardinality(Range(img))

\* C1: whenever PaletteImage returns, for a PaletteSize >= 1, the palette
\* of the returned image has exactly PaletteSize entries, whichever
\* seeding path was taken and however many iterations ran.
C1_PaletteLength ==
  (pc = "done" /\ cfg.PaletteSize >= 1) => Len(palette) = cfg.PaletteSize

\* C1 witness: a run through k-means++ and one through the distinct-colour
\* path with padding both return; here the k-means++ one, after at least
\* two iterations.
C1_Witness ==
  /\ pc = "done"
  /\ cfg.PaletteSize >= 1
  /\ Cardinality(Range(colors)) > p.PaletteSize
  /\ calls >= 2
  /\ Len(palette) = cfg.PaletteSize

\* C2: every cell of the returned index grid holds the index of the final
\* center nearest to the pixel's colour vector, by the rule of Iterate.
C2_NearestCenter ==
  (pc = "done" /\ ~Invalid(cfg)) =>
     \A k \in 1..Len(img) :
        Pix[k] = closest(toVector(p.ColorSpace, img[k]), Centers)[1] - 1

\* C3: for an image of N <= PaletteSize distinct colours the first N
\* palette entries are exactly those colours, the others are non-nil
\* copies of entry 0, and every pixel is mapped to its exact colour.
C3_DegeneratePalette ==
  (pc = "done" /\ ~Invalid(cfg) /\ Len(img) > 0 /\ NumColours <= p.PaletteSize) =>
     /\ {palette[k] : k \in 1..NumColours} = Range(img)
     /\ \A k \in (NumColours + 1)..Len(palette) :
           palette[k] # Nil /\ palette[k] = palette[1]
     /\ \A k \in 1..Len(img) : palette[Pix[k] + 1] = img[k]

\* C4: for an image without pixels PaletteImage never returns a palette.
C4_EmptyImageFails ==
  (Len(img) = 0 /\ ~Invalid(cfg)) => pc # "done"

\* C5: with an invalid configuration no Iterate call is made and nothing
\* is returned.
C5_InvalidConfigFailsFast ==
  (Invalid(cfg) /\ Len(img) > 0) =>
     (calls = 0 /\ pc \notin {"iterate", "loop", "palette", "done"})

\* The number of entries of s equal to x.
Count(s, x) == Cardinality({k \in 1..Len(s) : s[k] = x})

\* C6: subsampleClusterPixels returns min(len(colors), maxPixels)
\* elements: the input itself when it is short enough, and otherwise the
\* elements of that many distinct positions of the input (no value occurs
\* more often in the result than in the input).
C6_SubsampleSize ==
  pc = "newClusters" =>
     /\ Len(colors) = Min(Len(Vectors), p.MaxClusterPixels)
     /\ (Len(Vectors) <= p.MaxClusterPixels => colors = Vectors)
     /\ \A x \in Range(colors) : Count(colors, x) <= Count(Vectors, x)

\* C6 witness: a list longer than maxPixels was cut to a selection that is
\* not its prefix.
C6_Witness ==
  /\ pc = "newClusters"
  /\ Len(Vectors) > p.MaxClusterPixels
  /\ p.MaxClusterPixels >= 2
  /\ colors # SubSeq(Vectors, 1, p.MaxClusterPixels)
  /\ Len(colors) = p.MaxClusterPixels

\* The positions of a list of n elements that subsampleClusterPixels
\* selects under the draws d.
selected(n, maxPixels, d) ==
  Range(subsampleWith([k \in 1..n |-> k], maxPixels, d))

\* The number of draw sequences, all equally likely, that select pos.
InclusionCount(n, maxPixels, pos) ==
  Cardinality({d \in DrawSeqs(n, maxPixels) : pos \in selected(n, maxPixels, d)})

\* C7: for a list longer than maxPixels every position is selected by the
\* same number of the equally likely draw sequences, and every set of
\* maxPixels positions is selected by some draw sequence.
C7_Unbiased ==
  (pc = "newClusters" /\ Len(Vectors) > p.MaxClusterPixels) =>
     LET n == Len(Vectors)
         m == p.MaxClusterPixels
     IN  /\ \A a, b \in 1..n : InclusionCount(n, m, a) = InclusionCount(n, m, b)
         /\ \A S \in SUBSET (1..n) :
               Cardinality(S) = m => \E d \in DrawSeqs(n, m) : selected(n, m, d) = S

\* C8: on a fixed non-empty sample, from any starting centers drawn from
\* it, the loss a call of Iterate returns is never above the loss the call
\* before it returned.
C8_LossNonIncreasing ==
  (pc = "iterate" /\ calls >= 2) => LossGE(loss, newLoss)

\* C8 witness: a second or later call returned a loss that is smaller than
\* the one before it and still above zero.
C8_Witness ==
  /\ pc = "iterate"
  /\ calls >= 2
  /\ Len(Centers) >= 2
  /\ LossGE(loss, newLoss)
  /\ ~LossGE(newLoss, loss)
  /\ newLoss.num > 0

\* C9: the number of Iterate calls of a run never exceeds the maximum the
\* run works with, MaxKMeansIters or, for 0, its default.
C9_IterationCap ==
  (~Invalid(cfg) /\ Len(img) > 0) => calls <= p.MaxKMeansIters

\* uint8(x * 255.999) after a clamp of x = n / scale to [0, 1].
clampQuantize(n, scale) ==
  IF n < 0 THEN 0
  ELSE IF n > scale THEN 255
  ELSE times255999(n, scale)

\* C10: in both colour spaces every channel of the colour toColor returns
\* is the quantized value of the channel clamped to [0, 1]: 0 for a value
\* below 0 and 255 for a value above 1.
C10_ToColorClamps ==
  (pc = "done" /\ Len(Centers) = 1) =>
     LET c == channels(p.ColorSpace, Centers[1])
     IN  \A k \in 1..4 : palette[1][k] = clampQuantize(c[1][k], c[2])

\* |x| of an integer.
Abs(x) == IF x < 0 THEN -x ELSE x

\* C11: for every linear-RGB triple with components in [0, 1) the triple
\* that convertXYZToLinearRGB gives for the result of
\* convertLinearRGBToXYZ differs from it by at most 1e-4 in each component.
C11_MatrixInverses ==
  pc = "rgb1" =>
     \A k \in 1..3 : Abs(conv.rgb1[k] - conv.rgb[k]) <= FPX \div 10000

\* C11 witness: a triple of three different positive components went to
\* XYZ and back, and came back within the tolerance.
C11_Witness ==
  /\ pc = "rgb1"
  /\ conv.rgb = <<FPX - 1, FPX \div 3, 1>>
  /\ conv.xyz # conv.rgb
  /\ \A k \in 1..3 : Abs(conv.rgb1[k] - conv.rgb[k]) <= FPX \div 10000

\* The lowest index among the centers cs at the smallest squared distance
\* from co.
LeastNearest(co, cs) ==
  CHOOSE k \in 1..Len(cs) :
    \A j \in 1..Len(cs) :
       \/ DistSquared(co, cs[k]) < DistSquared(co, cs[j])
       \/ DistSquared(co, cs[k]) = DistSquared(co, cs[j]) /\ k <= j

\* C12: once the goroutines have finished, every scan of a sample point
\* has assigned it to the lowest-indexed center among those at the
\* smallest squared distance from it, and has added that distance to the
\* error.
C12_TieBreakLowestIndex ==
  (pc = "update" /\ i = 0) =>
     \A n \in 1..Len(assign) : \A e \in 1..Len(assign[n]) :
        LET s == assign[n][e]
        IN  /\ s.closestIdx = LeastNearest(colors[n], s.read)
            /\ s.closestDist = DistSquared(colors[n], s.read[s.closestIdx])

\* C12 witness: the goroutines have finished a call in which a point had
\* two different centers at its smallest distance and went to the one of
\* the lower index.
C12_Witness ==
  /\ pc = "update"
  /\ i = 0
  /\ \E n \in 1..Len(assign) : \E e \in 1..Len(assign[n]) :
        LET s == assign[n][e]
        IN  \E j \in 1..Len(s.read) :
               /\ j > s.closestIdx
               /\ s.read[j] # s.read[s.closestIdx]
               /\ DistSquared(colors[n], s.read[j]) = s.closestDist

\* The sample indexes the current call assigned to center k.
assignedPoints(k) ==
  {n \in 1..Len(assign) : Len(assign[n]) > 0 /\ assign[n][1].closestIdx = k}

\* The sum of the sample points among the first n that were assigned to
\* center k.
RECURSIVE assignedSum(_, _)
assignedSum(k, n) ==
  IF n = 0 THEN ZeroVector
  ELSE IF Len(assign[n]) > 0 /\ assign[n][1].closestIdx = k
       THEN Add(assignedSum(k, n - 1), colors[n])
  ELSE assignedSum(k, n - 1)

\* C13: when Iterate has returned there are as many centers as before, a
\* center without assigned points has its value from before the call, and
\* any other is the mean of the points assigned to it.
C13_ZeroAssignmentKeeps ==
  pc = "returned" =>
     /\ Len(Centers) = Len(before)
     /\ \A k \in 1..Len(before) :
           LET pts == assignedPoints(k)
           IN  IF pts = {} THEN Centers[k] = before[k]
               ELSE \A c \in 1..4 :
                       Centers[k][c] * Cardinality(pts)
                         = assignedSum(k, Len(colors))[c]

\* C13 witness: a call returned with one center without points, unchanged,
\* and another center moved to the mean of several points.
C13_Witness ==
  /\ pc = "returned"
  /\ \E k \in 1..Len(before) : assignedPoints(k) = {} /\ Centers[k] = before[k]
  /\ \E k \in 1..Len(before) :
        /\ Cardinality(assignedPoints(k)) >= 2
        /\ Centers[k] # before[k]
        /\ Centers[k] \notin Range(colors)

\* C14: the centers are written only when every goroutine has finished,
\* they are as at the start of the call while any goroutine is at work,
\* and every scan read the centers as the call before left them.
C14_Barrier ==
  /\ pc \in {"update", "returned"} =>
        \A w \in 1..numProcs : workers[w].pc = "done"
  /\ (\E w \in 1..numProcs : workers[w].pc \notin {"idle", "done"}) =>
        Centers = before
  /\ \A n \in 1..Len(assign) : \A e \in 1..Len(assign[n]) :
        assign[n][e].read = before

\* C14 witness: the second or a later call, with several goroutines all
\* finished, is in the middle of writing its centers.
C14_Witness ==
  /\ pc = "update"
  /\ calls >= 1
  /\ numProcs >= 2
  /\ i >= 1
  /\ i < Len(Centers)
  /\ Centers # before
  /\ \A w \in 1..numProcs : workers[w].pc = "done"
  /\ \A n \in 1..Len(assign) : Len(assign[n]) = 1

\* C15: at most one goroutine is in the merge section; once wg.Wait has
\* returned every sample index was scanned exactly once and the merged
\* accumulators are those of the sequential loop on the same centers and
\* sample; the centers and the loss of the call are those of the
\* sequential Iterate.
C15_ParallelEqualsSequential ==
  /\ Cardinality({w \in 1..numProcs : workers[w].pc \in {"merge", "unlock"}}) <= 1
  /\ \A n \in 1..Len(assign) : Len(assign[n]) <= 1
  /\ pc \in {"update", "returned"} =>
        LET acc == accumulate(before, colors, Len(colors))
        IN  /\ \A n \in 1..Len(assign) : Len(assign[n]) = 1
            /\ centerSum = acc.centerSum
            /\ centerCount = acc.centerCount
            /\ totalError = acc.totalError
            /\ SumSeq(centerCount) = Len(colors)
  /\ pc = "returned" =>
        LET r == Iterate(before, colors)
        IN  Centers = r.Centers /\ loss = r.loss

\* C15 witness: a call with more goroutines than sample points returned,
\* and so did a call in which every goroutine scanned several points.
C15_Witness ==
  /\ pc = "returned"
  /\ numProcs >= 2
  /\ \/ numProcs > Len(colors)
     \/ /\ Len(colors) >= 2 * numProcs
        /\ Len(Centers) >= 2
        /\ \A k \in 1..Len(Centers) : centerCount[k] > 0
        /\ Centers # before

\* kmeansPlusPlusInit is between its first center and its return.
InKpp == pc \in {"kppLoop", "kppUpdate", "kppDone"}

\* The smallest squared distance from co to one of the first n centers.
nearestDist(co, n) ==
  LET ds == {DistSquared(co, Centers[j]) : j \in 1..n}
  IN  CHOOSE d \in ds : \A e \in ds : d <= e

\* C16: after newCenterDistances and after every Update, Distances[k] is
\* the smallest squared distance from sample point k to a center chosen so
\* far and DistanceSum is the sum of Distances; no step of
\* kmeansPlusPlusInit makes a distance larger.
C16_CenterDistances ==
  /\ [](InKpp =>
          /\ \A k \in 1..Len(colors) :
                dists.Distances[k] = nearestDist(colors[k], i)
          /\ dists.DistanceSum = SumSeq(dists.Distances))
  /\ [][(InKpp /\ InKpp') =>
          \A k \in 1..Len(colors) : dists.Distances'[k] <= dists.Distances[k]]_vars

\* C16 witness: after the second center one point is still away from
\* both centers and nearer to the second, another nearer to the first.
C16_Witness ==
  /\ pc = "kppLoop"
  /\ i = 2
  /\ \E k \in 1..Len(colors) :
        /\ dists.Distances[k] > 0
        /\ dists.Distances[k] < DistSquared(colors[k], Centers[1])
  /\ \E k \in 1..Len(colors) :
        dists.Distances[k] < DistSquared(colors[k], Centers[2])

\* C17: for a sample of more than k distinct vectors, every Sample call
\* selects an index whose distance is above 0, by the break of its scan
\* and not by the last-index fallback, and the k centers returned are
\* pairwise distinct members of the sample.
C17_DistinctCenters ==
  Cardinality(Range(colors)) > p.PaletteSize =>
     /\ pc = "kppUpdate" =>
           /\ dists.Distances[pick.sampleIdx] > 0
           /\ pick.sample < SumSeq(SubSeq(dists.Distances, 1, pick.sampleIdx))
     /\ pc = "kppDone" =>
           /\ Len(Centers) = p.PaletteSize
           /\ \A j \in 1..Len(Centers) : Centers[j] \in Range(colors)
           /\ \A j, k \in 1..Len(Centers) : j # k => Centers[j] # Centers[k]

\* C17 witness: two centers were returned for a sample of three distinct
\* vectors, one of them there twice.
C17_Witness ==
  /\ pc = "kppDone"
  /\ p.PaletteSize >= 2
  /\ Cardinality(Range(colors)) > p.PaletteSize
  /\ Len(colors) > Cardinality(Range(colors))
  /\ Centers[1] # Centers[2]

=============================================================================
